---- MODULE Spec2Model ----
(***************************************************************************)
(* Request handling of the teacher backend (src/app.py, src/db.py): the    *)
(* FlaskApp object with its single `connection` attribute, the per-request *)
(* hooks (_before_request, _teardown_request), the six route handlers, and *)
(* the MySQL store they talk to through pymysql connections.               *)
(*                                                                         *)
(* The server started by FlaskApp.run (app.run of Flask) serves requests   *)
(* on threads; every thread runs the same FlaskApp instance, so the        *)
(* attribute self.connection is read and written by all of them.  A        *)
(* handler is modelled statement group by statement group, one action per  *)
(* group that reads self.connection or the store.                          *)
(***************************************************************************)
EXTENDS Integers, Sequences, FiniteSets, TLC

\* number of requests the server receives in one run
MaxRequests == 3
\* number of worker threads that may serve requests at the same time
MaxInFlight == 2

Threads == 1..MaxInFlight
Serials == 1..MaxRequests
\* self.connection = None / get_db_connection() returned None
None == 0

VARIABLES
    connection,    \* FlaskApp.connection: None or the serial of a connection
    connState,     \* per connection: "unused", "open" or "closed"
    pend,          \* per connection: statements executed and not yet committed
    closeCalls,    \* per connection: how many times close() was called on it
    teachers,      \* committed rows of table teachers
    tests,         \* committed rows of table tests
    mcq,           \* committed rows of table mcq
    schemaUnique,  \* whether the schema declares the id/email keys unique
    pc,            \* per thread: where the request it serves stands
    req,           \* per thread: the request
    ser,           \* per thread: serial number of the request
    own,           \* per thread: what get_db_connection returned to its _before_request
    cur,           \* per thread: the connection its cursor is bound to
    resp,          \* per thread: the (body, status) the handler returned
    escaped,       \* per thread: an exception left the handler
    nreq,          \* requests received so far
    created        \* signups answered 201: [tid, email, by]

vars == <<connection, connState, pend, closeCalls, teachers, tests, mcq, schemaUnique,
          pc, req, ser, own, cur, resp, escaped, nreq, created>>

storeVars == <<teachers, tests, mcq>>

-----------------------------------------------------------------------------
\* Strings the handlers parse are sequences of characters.

Str_easy == <<"e","a","s","y">>
Str_medium == <<"m","e","d","i","u","m">>
Str_hard == <<"h","a","r","d">>
Str_MEDIUM == <<"M","E","D","I","U","M">>
Str_Hard == <<"H","a","r","d">>
Str_impossible == <<"i","m","p","o","s","s","i","b","l","e">>

VALID_DIFFICULTIES == <<Str_easy, Str_medium, Str_hard>>

UpperCase == <<"A","B","C","D","E","F","G","H","I","J","K","L","M",
               "N","O","P","Q","R","S","T","U","V","W","X","Y","Z">>
LowerCase == <<"a","b","c","d","e","f","g","h","i","j","k","l","m",
               "n","o","p","q","r","s","t","u","v","w","x","y","z">>

\* str.lower() on one character
LowerChar(c) ==
    IF \E i \in 1..Len(UpperCase) : UpperCase[i] = c
    THEN LowerCase[CHOOSE i \in 1..Len(UpperCase) : UpperCase[i] = c]
    ELSE c

\* str.lower()
Lower(s) == [i \in 1..Len(s) |-> LowerChar(s[i])]

InSeq(x, s) == \E i \in 1..Len(s) : s[i] = x

\* the membership test without the lower()
DifficultyNoLower(d) == InSeq(d, VALID_DIFFICULTIES)

\* data['difficulty'].lower() in VALID_DIFFICULTIES
DifficultyValid(d) == InSeq(Lower(d), VALID_DIFFICULTIES)

Digits == <<"0","1","2","3","4","5","6","7","8","9">>
DigitVal(c) == (CHOOSE i \in 1..Len(Digits) : Digits[i] = c) - 1

\* int(data['id']) raises ValueError unless the string is a decimal number
IntParses(s) == Len(s) > 0 /\ \A i \in 1..Len(s) : InSeq(s[i], Digits)

RECURSIVE IntOf(_)
IntOf(s) ==
    IF Len(s) = 0 THEN 0
    ELSE 10 * IntOf(SubSeq(s, 1, Len(s) - 1)) + DigitVal(s[Len(s)])

-----------------------------------------------------------------------------
\* The cipher: Fernet(KEY).  A token carries the key it was made under and the
\* plaintext; decrypt raises InvalidToken on a token made under another key.

KEY == "k1"
OldKey == "k0"

encrypt_data(data) == [key |-> KEY, plain |-> data]
DecryptOk(token) == token.key = KEY
decrypt_data(token) == token.plain

-----------------------------------------------------------------------------
\* Requests.  `keys` are the keys of the JSON body (or of the query string);
\* a field whose value the handlers do not look at is only a key.

SeqFields == {"id", "difficulty"}
StrFields == {"email", "password", "department", "createdBy"}

SignupFields == <<"id", "name", "email", "password", "department">>
LoginFields == <<"email", "password">>
TestFields == <<"id", "name", "marks", "totalQuestions", "duration",
                "difficulty", "subject", "createdBy", "scheduleDate", "dept_name">>
QuestionFields == <<"id", "question", "optionA", "optionB", "optionC", "optionD",
                    "correctOption", "difficulty", "subject">>

Range(s) == {s[i] : i \in 1..Len(s)}

Blank == [kind |-> "none", keys |-> {}, id |-> <<>>, email |-> "", password |-> "",
          department |-> "", difficulty |-> <<>>, createdBy |-> ""]

SignupReq(id, email, password, department, missing) ==
    [Blank EXCEPT !.kind = "signup", !.keys = Range(SignupFields) \ missing,
                  !.id = id, !.email = email, !.password = password,
                  !.department = department]
VerifyReq(email, missing) ==
    [Blank EXCEPT !.kind = "verify", !.keys = {"email"} \ missing, !.email = email]
LoginReq(email, password, missing) ==
    [Blank EXCEPT !.kind = "login", !.keys = Range(LoginFields) \ missing,
                  !.email = email, !.password = password]
TestReq(id, difficulty, createdBy, missing) ==
    [Blank EXCEPT !.kind = "create_test", !.keys = Range(TestFields) \ missing,
                  !.id = id, !.difficulty = difficulty, !.createdBy = createdBy]
ResultsReq(email, missing) ==
    [Blank EXCEPT !.kind = "get_results", !.keys = {"email"} \ missing, !.email = email]
QuestionReq(id, missing) ==
    [Blank EXCEPT !.kind = "create_question", !.keys = Range(QuestionFields) \ missing,
                  !.id = id, !.difficulty = Str_easy]

SignupInputs ==
    {SignupReq(<<"1">>, "a", "p", "CS", {}), SignupReq(<<"2">>, "a", "p", "CS", {}),
     SignupReq(<<"1">>, "b", "p", "CS", {}), SignupReq(<<"1">>, "a", "p", "XX", {}),
     SignupReq(<<"1">>, "a", "", "CS", {"password"})}
VerifyInputs == {VerifyReq("a", {}), VerifyReq("b", {}), VerifyReq("", {"email"})}
LoginInputs ==
    {LoginReq("a", "p", {}), LoginReq("a", "q", {}), LoginReq("b", "p", {}),
     LoginReq("a", "", {"password"})}
TestInputs ==
    {TestReq(<<"7">>, d, "a", {}) : d \in {Str_MEDIUM, Str_Hard, Str_impossible}}
    \cup {TestReq(<<"7">>, Str_MEDIUM, "b", {}), TestReq(<<"x">>, Str_easy, "a", {}),
          TestReq(<<"7">>, Str_impossible, "a", {"marks"})}
ResultsInputs == {ResultsReq("a", {}), ResultsReq("", {"email"})}
QuestionInputs ==
    {QuestionReq(<<"7">>, {}), QuestionReq(<<"x">>, {}), QuestionReq(<<"7">>, {"subject"})}

Inputs == SignupInputs \cup VerifyInputs \cup LoginInputs \cup TestInputs
          \cup ResultsInputs \cup QuestionInputs

\* `field not in data or not data[field]`
Falsy(data, f) ==
    \/ f \notin data.keys
    \/ f \in SeqFields /\ data[f] = <<>>
    \/ f \in StrFields /\ data[f] = ""

\* FlaskApp.validate_required_fields: the missing fields, in the order asked
missing_fields(data, required_fields) ==
    SelectSeq(required_fields, LAMBDA f : Falsy(data, f))

-----------------------------------------------------------------------------
\* Responses: (jsonify(body), status).  `message`/`error` absent from the body
\* are "<absent>"; `detail` is the field list a validation message names.

Absent == "<absent>"
NoResp == [status |-> 0, success |-> FALSE, message |-> Absent, error |-> Absent,
           detail |-> <<>>]
Body(status, success, message) ==
    [status |-> status, success |-> success, message |-> message, error |-> Absent,
     detail |-> <<>>]
Failure500(message) == [Body(500, FALSE, message) EXCEPT !.error = "str(e)"]
MissingResp(m) ==
    [Body(400, FALSE, "Missing required fields: ") EXCEPT !.detail = m]

MsgInvalidLogin == "Invalid email or password"
MsgDuplicate == "Email or ID already exists"
MsgDifficulty == "Difficulty must be one of: easy, medium, hard"

-----------------------------------------------------------------------------
\* The store.  Rows carry `rid`, the serial of the request that inserted them
\* (0 for a row that was in the table before the server started), so that a
\* table without unique keys can hold two rows with the same column values.
\* Column `verified` is 0 or, in place of the 1 the UPDATE writes, the serial
\* of the request whose UPDATE first set it.

Departments == {"CS"}

NoToken == [key |-> "", plain |-> ""]
NoTeacher == [tid |-> <<>>, email |-> "", password |-> NoToken, dept |-> "",
              verified |-> 0, rid |-> 0]

\* a teacher row written under an earlier KEY
LegacyRow == [tid |-> <<"2">>, email |-> "b",
              password |-> [key |-> OldKey, plain |-> "p"],
              dept |-> "CS", verified |-> 0, rid |-> 0]

\* one executed, uncommitted statement of a transaction
Stmt(op, by, tid, num, email, token, dept, difficulty) ==
    [op |-> op, by |-> by, tid |-> tid, num |-> num, email |-> email,
     token |-> token, dept |-> dept, difficulty |-> difficulty]

InsertedTeachers(ops) ==
    {[tid |-> o.tid, email |-> o.email, password |-> o.token, dept |-> o.dept,
      verified |-> 0, rid |-> o.by] : o \in {x \in ops : x.op = "insert_teacher"}}
Updates(ops) == {x \in ops : x.op = "update_verified"}
FirstUpdate(ops, email) ==
    CHOOSE o \in Updates(ops) :
        o.email = email /\ \A x \in Updates(ops) : x.email = email => o.by <= x.by
InsertedTests(ops) ==
    {[num |-> o.num, teacher |-> o.email, difficulty |-> o.difficulty, rid |-> o.by] :
        o \in {x \in ops : x.op = "insert_test"}}
InsertedMcq(ops) ==
    {[num |-> o.num, rid |-> o.by] : o \in {x \in ops : x.op = "insert_mcq"}}

\* table teachers with the statements `ops` applied
TeachersAfter(T, ops) ==
    {IF r.verified = 0 /\ \E o \in Updates(ops) : o.email = r.email
     THEN [r EXCEPT !.verified = FirstUpdate(ops, r.email).by] ELSE r :
        r \in T \cup InsertedTeachers(ops)}

\* what a statement on connection c reads: the committed rows and the
\* uncommitted statements of c's own transaction
TeachersSeen(c) == TeachersAfter(teachers, pend[c])

\* rows of every transaction, for the unique-key check of an INSERT
AllPending == UNION {pend[c] : c \in Serials}

\* IntegrityError (or a lock wait on a row another transaction holds)
DuplicateKey(o) ==
    /\ schemaUnique
    /\ \/ /\ o.op = "insert_teacher"
          /\ \E r \in TeachersAfter(teachers, AllPending) :
                r.tid = o.tid \/ r.email = o.email
       \/ /\ o.op = "insert_test"
          /\ \E r \in tests \cup InsertedTests(AllPending) : r.num = o.num
       \/ /\ o.op = "insert_mcq"
          /\ \E r \in mcq \cup InsertedMcq(AllPending) : r.num = o.num

\* pymysql: execute, commit and rollback raise on a closed connection
Usable(c) == c # None /\ connState[c] = "open"

-----------------------------------------------------------------------------
TypeOK ==
    /\ connection \in {None} \cup Serials
    /\ connState \in [Serials -> {"unused", "open", "closed"}]
    /\ closeCalls \in [Serials -> 0..MaxRequests]
    /\ schemaUnique \in BOOLEAN
    /\ pc \in [Threads -> {"idle", "handler", "check", "write", "query", "commit",
                           "except", "teardown"}]
    /\ \A t \in Threads : req[t] \in Inputs \cup {Blank}
    /\ ser \in [Threads -> {0} \cup Serials]
    /\ own \in [Threads -> {None} \cup Serials]
    /\ cur \in [Threads -> {None} \cup Serials]
    /\ escaped \in [Threads -> BOOLEAN]
    /\ nreq \in 0..MaxRequests

\* FlaskApp.__init__ and the store the server finds, table teachers being T
InitWith(T) ==
    /\ connection = None
    /\ connState = [c \in Serials |-> "unused"]
    /\ pend = [c \in Serials |-> {}]
    /\ closeCalls = [c \in Serials |-> 0]
    /\ teachers = T
    /\ tests = {}
    /\ mcq = {}
    /\ schemaUnique \in BOOLEAN
    /\ pc = [t \in Threads |-> "idle"]
    /\ req = [t \in Threads |-> Blank]
    /\ ser = [t \in Threads |-> 0]
    /\ own = [t \in Threads |-> None]
    /\ cur = [t \in Threads |-> None]
    /\ resp = [t \in Threads |-> NoResp]
    /\ escaped = [t \in Threads |-> FALSE]
    /\ nreq = 0
    /\ created = {}

\* the server started on an empty store
Init == InitWith({})

\* the server started on an empty store, or on one that holds a teacher whose
\* password was encrypted under an earlier KEY
InitSeq == \E T \in {{}, {LegacyRow}} : InitWith(T)

\* FlaskApp._before_request, on the arrival of a request:
\* self.connection = get_db_connection(), which is None when the store
\* cannot be reached.  The threads being alike, the free thread of least
\* number takes the request.
BeforeRequest(t) ==
    /\ pc[t] = "idle"
    /\ nreq < MaxRequests
    /\ \A u \in Threads : u < t => pc[u] # "idle"
    /\ \E data \in Inputs, up \in BOOLEAN :
        LET s == nreq + 1
            c == IF up THEN s ELSE None
        IN  /\ nreq' = s
            /\ req' = [req EXCEPT ![t] = data]
            /\ ser' = [ser EXCEPT ![t] = s]
            /\ own' = [own EXCEPT ![t] = c]
            /\ connection' = c
            /\ connState' = IF up THEN [connState EXCEPT ![s] = "open"] ELSE connState
    /\ pc' = [pc EXCEPT ![t] = "handler"]
    /\ UNCHANGED <<pend, closeCalls, storeVars, schemaUnique, cur, resp, escaped,
                   created>>

\* the checks a handler makes before it touches the connection; NoResp when
\* the request passes them
EarlyReturn(data) ==
    CASE data.kind = "signup" ->
            IF missing_fields(data, SignupFields) # <<>>
            THEN MissingResp(missing_fields(data, SignupFields)) ELSE NoResp
      [] data.kind = "verify" ->
            IF "email" \notin data.keys
            THEN Body(400, FALSE, "Email is required") ELSE NoResp
      [] data.kind = "login" ->
            IF missing_fields(data, LoginFields) # <<>>
            THEN MissingResp(missing_fields(data, LoginFields)) ELSE NoResp
      [] data.kind = "create_test" ->
            IF missing_fields(data, TestFields) # <<>>
            THEN MissingResp(missing_fields(data, TestFields))
            ELSE IF ~DifficultyValid(data.difficulty)
            THEN Body(400, FALSE, MsgDifficulty) ELSE NoResp
      [] data.kind = "get_results" ->
            IF Falsy(data, "email")
            THEN Body(400, FALSE, "Teacher email is required") ELSE NoResp
      [] data.kind = "create_question" ->
            IF missing_fields(data, QuestionFields) # <<>>
            THEN MissingResp(missing_fields(data, QuestionFields)) ELSE NoResp

\* the first statement group of each handler
FirstGroup(kind) ==
    CASE kind \in {"signup", "verify", "create_test"} -> "check"
      [] kind \in {"login", "get_results"} -> "query"
      [] kind = "create_question" -> "write"

\* a handler at its start (pc "handler") runs request.get_json(), its
\* validation and `with self.connection.cursor() as cursor` together with its
\* first statement group; a later statement group runs at pc = its name
AtGroup(t, group) ==
    \/ pc[t] = group
    \/ pc[t] = "handler" /\ FirstGroup(req[t].kind) = group

\* the response of the validation, when the handler has yet to run it
Early(t) == IF pc[t] = "handler" THEN EarlyReturn(req[t]) ELSE NoResp

\* the connection of the handler's cursor: self.connection at the time of
\* `self.connection.cursor()` (an AttributeError when it is None)
Cursor(t) == IF pc[t] = "handler" THEN connection ELSE cur[t]

\* an exception raised inside the handler's try block
Raise == [NoResp EXCEPT !.status = -1]

\* FlaskApp.signup, the two SELECTs: the duplicate check, then the department
SignupCheck(data, seen) ==
    IF \E r \in seen : r.email = data.email \/ r.tid = data.id
    THEN Body(400, FALSE, MsgDuplicate)
    ELSE IF data.department \notin Departments
    THEN Body(400, FALSE, "Invalid department")
    ELSE NoResp

\* FlaskApp.verify: SELECT email FROM teachers WHERE email = %s
VerifyCheck(data, seen) ==
    IF ~ \E r \in seen : r.email = data.email
    THEN Body(404, FALSE, "Email not found") ELSE NoResp

\* FlaskApp.create_test: SELECT id FROM teachers WHERE email = createdBy
TestCheck(data, seen) ==
    IF ~ \E r \in seen : r.email = data.createdBy
    THEN Body(404, FALSE, "Teacher not found") ELSE NoResp

\* the SELECTs of signup, verify and create_test that decide whether the
\* handler goes on to its INSERT/UPDATE; they run on the handler's cursor
Check(t) ==
    /\ AtGroup(t, "check")
    /\ LET data == req[t]
           c == Cursor(t)
           out == CASE data.kind = "signup" -> SignupCheck(data, TeachersSeen(c))
                    [] data.kind = "verify" -> VerifyCheck(data, TeachersSeen(c))
                    [] data.kind = "create_test" -> TestCheck(data, TeachersSeen(c))
       IN  IF Early(t) # NoResp
           THEN /\ resp' = [resp EXCEPT ![t] = Early(t)]
                /\ pc' = [pc EXCEPT ![t] = "teardown"]
                /\ UNCHANGED cur
           ELSE IF ~Usable(c)
           THEN /\ pc' = [pc EXCEPT ![t] = "except"]
                /\ cur' = [cur EXCEPT ![t] = c]
                /\ UNCHANGED resp
           ELSE IF out # NoResp
           THEN /\ resp' = [resp EXCEPT ![t] = out]
                /\ pc' = [pc EXCEPT ![t] = "teardown"]
                /\ cur' = [cur EXCEPT ![t] = c]
           ELSE /\ pc' = [pc EXCEPT ![t] = "write"]
                /\ cur' = [cur EXCEPT ![t] = c]
                /\ UNCHANGED resp
    /\ UNCHANGED <<connection, connState, pend, closeCalls, storeVars, schemaUnique,
                   req, ser, own, escaped, nreq, created>>

\* the statement a handler executes, from its request
Statement(data, by) ==
    CASE data.kind = "signup" ->
            Stmt("insert_teacher", by, data.id, 0, data.email,
                 encrypt_data(data.password), data.department, <<>>)
      [] data.kind = "verify" ->
            Stmt("update_verified", by, <<>>, 0, data.email, NoToken, "", <<>>)
      [] data.kind = "create_test" ->
            Stmt("insert_test", by, <<>>, IntOf(data.id), data.createdBy, NoToken, "",
                 data.difficulty)
      [] data.kind = "create_question" ->
            Stmt("insert_mcq", by, <<>>, IntOf(data.id), "", NoToken, "", <<>>)

\* int(data['id']) in the arguments of create_test's and create_question's INSERT
CoercionFails(data) ==
    data.kind \in {"create_test", "create_question"} /\ ~IntParses(data.id)

\* the INSERT or UPDATE of signup, verify, create_test and create_question,
\* executed on the handler's cursor and left uncommitted
Write(t) ==
    /\ AtGroup(t, "write")
    /\ LET data == req[t]
           c == Cursor(t)
       IN  IF Early(t) # NoResp
           THEN /\ resp' = [resp EXCEPT ![t] = Early(t)]
                /\ pc' = [pc EXCEPT ![t] = "teardown"]
                /\ UNCHANGED <<cur, pend>>
           ELSE IF ~Usable(c) \/ CoercionFails(data)
           THEN /\ pc' = [pc EXCEPT ![t] = "except"]
                /\ cur' = [cur EXCEPT ![t] = c]
                /\ UNCHANGED <<pend, resp>>
           ELSE IF DuplicateKey(Statement(data, ser[t]))
           THEN /\ pc' = [pc EXCEPT ![t] = "except"]
                /\ cur' = [cur EXCEPT ![t] = c]
                /\ UNCHANGED <<pend, resp>>
           ELSE /\ pend' = [pend EXCEPT ![c] = @ \cup {Statement(data, ser[t])}]
                /\ pc' = [pc EXCEPT ![t] = "commit"]
                /\ cur' = [cur EXCEPT ![t] = c]
                /\ UNCHANGED resp
    /\ UNCHANGED <<connection, connState, closeCalls, storeVars, schemaUnique,
                   req, ser, own, escaped, nreq, created>>

\* what each mutating handler returns after its commit
SuccessOf(kind) ==
    CASE kind = "signup" -> Body(201, TRUE, "Teacher account created successfully")
      [] kind = "verify" -> Body(200, TRUE, "Account verified successfully")
      [] kind = "create_test" -> Body(201, TRUE, "Test created successfully")
      [] kind = "create_question" -> Body(200, TRUE, "Question created successfully")

\* self.connection.commit() and the return that follows it.  The commit is
\* sent on whatever self.connection is now, and commits that connection's
\* whole transaction.
Commit(t) ==
    /\ pc[t] = "commit"
    /\ LET c == connection
       IN  IF ~Usable(c)
           THEN /\ pc' = [pc EXCEPT ![t] = "except"]
                /\ UNCHANGED <<pend, storeVars, resp, created>>
           ELSE /\ teachers' = TeachersAfter(teachers, pend[c])
                /\ tests' = tests \cup InsertedTests(pend[c])
                /\ mcq' = mcq \cup InsertedMcq(pend[c])
                /\ pend' = [pend EXCEPT ![c] = {}]
                /\ resp' = [resp EXCEPT ![t] = SuccessOf(req[t].kind)]
                /\ created' = IF req[t].kind = "signup"
                              THEN created \cup {[tid |-> req[t].id,
                                                  email |-> req[t].email,
                                                  by |-> ser[t]]}
                              ELSE created
                /\ pc' = [pc EXCEPT ![t] = "teardown"]
    /\ UNCHANGED <<connection, connState, closeCalls, schemaUnique, req, ser, own, cur,
                   escaped, nreq>>

\* login with the verified flag looked at before the password
LoginFlagFirst(data, teacher) ==
    IF teacher = NoTeacher
    THEN Body(401, FALSE, MsgInvalidLogin)
    ELSE IF teacher.verified = 0
    THEN Body(403, FALSE, "Account not verified. Please check your email.")
    ELSE IF ~DecryptOk(teacher.password)
    THEN Raise
    ELSE IF data.password # decrypt_data(teacher.password)
    THEN Body(401, FALSE, MsgInvalidLogin)
    ELSE Body(200, TRUE, "Login successful")

\* login without the look at the verified flag
LoginNoFlag(data, teacher) ==
    IF teacher = NoTeacher
    THEN Body(401, FALSE, MsgInvalidLogin)
    ELSE IF ~DecryptOk(teacher.password)
    THEN Raise
    ELSE IF data.password # decrypt_data(teacher.password)
    THEN Body(401, FALSE, MsgInvalidLogin)
    ELSE Body(200, TRUE, "Login successful")

\* FlaskApp.login from the fetched row on: no row, decrypt, compare, the
\* verified flag; the SELECTs for the profile follow on the same cursor
LoginResult(data, teacher) ==
    IF teacher = NoTeacher
    THEN Body(401, FALSE, MsgInvalidLogin)
    ELSE IF ~DecryptOk(teacher.password)
    THEN Raise
    ELSE IF data.password # decrypt_data(teacher.password)
    THEN Body(401, FALSE, MsgInvalidLogin)
    ELSE IF teacher.verified = 0
    THEN Body(403, FALSE, "Account not verified. Please check your email.")
    ELSE Body(200, TRUE, "Login successful")

\* FlaskApp.get_results after its SELECT: a body without `message`
ResultsBody == Body(200, TRUE, Absent)

\* the SELECTs of login and get_results and the response built from them;
\* fetchone() yields one of the matching rows
Query(t) ==
    /\ AtGroup(t, "query")
    /\ LET data == req[t]
           c == Cursor(t)
           rows == IF Usable(c)
                   THEN {r \in TeachersSeen(c) : r.email = data.email} ELSE {}
       IN  \E teacher \in (IF rows = {} THEN {NoTeacher} ELSE rows) :
            LET out == IF data.kind = "login"
                       THEN LoginResult(data, teacher)
                       ELSE ResultsBody
            IN  IF Early(t) # NoResp
                THEN /\ resp' = [resp EXCEPT ![t] = Early(t)]
                     /\ pc' = [pc EXCEPT ![t] = "teardown"]
                     /\ UNCHANGED cur
                ELSE IF ~Usable(c) \/ out = Raise
                THEN /\ pc' = [pc EXCEPT ![t] = "except"]
                     /\ cur' = [cur EXCEPT ![t] = c]
                     /\ UNCHANGED resp
                ELSE /\ resp' = [resp EXCEPT ![t] = out]
                     /\ pc' = [pc EXCEPT ![t] = "teardown"]
                     /\ cur' = [cur EXCEPT ![t] = c]
    /\ UNCHANGED <<connection, connState, pend, closeCalls, storeVars, schemaUnique,
                   req, ser, own, escaped, nreq, created>>

\* the message of each handler's except branch
ErrorMessage(kind) ==
    CASE kind = "signup" -> "An error occurred during signup"
      [] kind = "verify" -> "An error occurred during verification"
      [] kind = "login" -> "An error occurred during login"
      [] kind = "create_test" -> "An error occurred while creating the test"
      [] kind = "get_results" -> "An error occurred while fetching results"
      [] kind = "create_question" -> "An error occurred while creating question"

\* the handlers whose except branch calls self.connection.rollback()
RollsBack(kind) == kind \in {"signup", "verify", "create_test", "create_question"}

\* `except Exception as e`: the rollback on self.connection (which raises when
\* it is None or closed, and then the exception leaves the handler), and the
\* 500 response
Except(t) ==
    /\ pc[t] = "except"
    /\ LET c == connection
       IN  IF ~RollsBack(req[t].kind)
           THEN /\ resp' = [resp EXCEPT ![t] = Failure500(ErrorMessage(req[t].kind))]
                /\ UNCHANGED <<pend, escaped>>
           ELSE IF ~Usable(c)
           THEN /\ escaped' = [escaped EXCEPT ![t] = TRUE]
                /\ UNCHANGED <<pend, resp>>
           ELSE /\ pend' = [pend EXCEPT ![c] = {}]
                /\ resp' = [resp EXCEPT ![t] = Failure500(ErrorMessage(req[t].kind))]
                /\ UNCHANGED escaped
    /\ pc' = [pc EXCEPT ![t] = "teardown"]
    /\ UNCHANGED <<connection, connState, closeCalls, storeVars, schemaUnique,
                   req, ser, own, cur, nreq, created>>

\* FlaskApp._teardown_request: `if self.connection: self.connection.close()`;
\* closing a connection ends its transaction without a commit.  The thread is
\* then free for the next request.
Teardown(t) ==
    /\ pc[t] = "teardown"
    /\ LET c == connection
       IN  IF c = None
           THEN UNCHANGED <<connState, pend, closeCalls>>
           ELSE /\ connState' = [connState EXCEPT ![c] = "closed"]
                /\ pend' = [pend EXCEPT ![c] = {}]
                /\ closeCalls' = [closeCalls EXCEPT ![c] = @ + 1]
    /\ pc' = [pc EXCEPT ![t] = "idle"]
    /\ req' = [req EXCEPT ![t] = Blank]
    /\ ser' = [ser EXCEPT ![t] = 0]
    /\ own' = [own EXCEPT ![t] = None]
    /\ cur' = [cur EXCEPT ![t] = None]
    /\ resp' = [resp EXCEPT ![t] = NoResp]
    /\ escaped' = [escaped EXCEPT ![t] = FALSE]
    /\ UNCHANGED <<connection, storeVars, schemaUnique, nreq, created>>

Step(t) ==
    \/ BeforeRequest(t)
    \/ Check(t)
    \/ Write(t)
    \/ Query(t)
    \/ Commit(t)
    \/ Except(t)
    \/ Teardown(t)

\* requests served concurrently, one per thread
Next == \E t \in Threads : Step(t)

Spec == Init /\ [][Next]_vars

\* requests served one after the other, by one thread
NextSeq == Step(1)

SpecSeq == InitSeq /\ [][NextSeq]_vars

-----------------------------------------------------------------------------
\* Properties.

\* thread t holds the handler's result for a request of this kind
Answered(t, kind) == pc[t] = "teardown" /\ req[t].kind = kind
\* the request of thread t passed its handler's validation
Valid(t) == EarlyReturn(req[t]) = NoResp
Failed(t) == escaped[t] \/ ~resp[t].success

\* C1: signups never succeed twice for one email or one id, a signup whose
\* email or id another signup got created is answered 400 'Email or ID already
\* exists', and table teachers holds no two rows with one email or one id.
C1_SignupOnce ==
    /\ \A x, y \in created : x # y => x.email # y.email /\ x.tid # y.tid
    /\ \A r1, r2 \in teachers : r1 # r2 => r1.email # r2.email /\ r1.tid # r2.tid
    /\ \A t \in Threads :
        ( /\ Answered(t, "signup")
          /\ Valid(t)
          /\ own[t] # None
          /\ req[t].department \in Departments
          /\ \E x \in created :
                x.by # ser[t] /\ (x.email = req[t].email \/ x.tid = req[t].id) )
        => resp[t] = Body(400, FALSE, MsgDuplicate)

\* C2: a request's cursor, commit, rollback and close are issued on the
\* connection its own _before_request acquired, never on another request's.
C2_OwnConnectionOnly ==
    [][\A t \in Threads :
        /\ (pc[t] = "handler" /\ Valid(t) /\ pc'[t] # "handler")
              => connection \in {None, own[t]}
        /\ (pc[t] = "commit" /\ pc'[t] # "commit") => connection \in {None, own[t]}
        /\ (pc[t] = "except" /\ RollsBack(req[t].kind) /\ pc'[t] # "except")
              => connection \in {None, own[t]}
        /\ (pc[t] = "teardown" /\ pc'[t] # "teardown")
              => connection \in {None, own[t]}]_vars

\* C3: no connection is closed twice, and once every request has finished
\* every connection that was acquired has been closed exactly once.
C3_ReleasedOnce ==
    /\ \A c \in Serials : closeCalls[c] <= 1
    /\ (\A t \in Threads : pc[t] = "idle") =>
          \A c \in Serials :
              connState[c] # "unused" => connState[c] = "closed" /\ closeCalls[c] = 1

\* the statement of the request of thread t is in the committed tables
Committed(t) ==
    CASE req[t].kind = "signup" -> \E r \in teachers : r.rid = ser[t]
      [] req[t].kind = "verify" -> \E r \in teachers : r.verified = ser[t]
      [] req[t].kind = "create_test" -> \E r \in tests : r.rid = ser[t]
      [] req[t].kind = "create_question" -> \E r \in mcq : r.rid = ser[t]
      [] OTHER -> FALSE

\* C4: a signup, verify, create_test or create_question that returns success
\* has its row committed (for verify: the teacher's row is committed as
\* verified), and one that fails has committed nothing.
C4_CommittedIffSuccess ==
    \A t \in Threads :
        (pc[t] = "teardown" /\ RollsBack(req[t].kind)) =>
            /\ Failed(t) => ~Committed(t)
            /\ ~Failed(t) =>
                  IF req[t].kind = "verify"
                  THEN \E r \in teachers : r.email = req[t].email /\ r.verified # 0
                  ELSE Committed(t)

\* C5: no exception leaves a handler; a handler that hit a failure returns a
\* body with success = false.
C5_NoEscape ==
    \A t \in Threads :
        /\ ~escaped[t]
        /\ pc[t] = "teardown" => resp[t] # NoResp

\* the committed rows of the teacher a login request names
RowsOf(t) == {r \in teachers : r.email = req[t].email}

\* C6: a login for an unknown email and a login for a known email with a
\* password other than the stored one both return 401 'Invalid email or
\* password', whatever the teacher's verified flag.
C6_LoginNoEnumeration ==
    \A t \in Threads :
        ( /\ Answered(t, "login")
          /\ Valid(t)
          /\ own[t] # None
          /\ \A r \in RowsOf(t) :
                DecryptOk(r.password) /\ decrypt_data(r.password) # req[t].password )
        => resp[t] = Body(401, FALSE, MsgInvalidLogin)

\* C6, a case: a verified teacher, a wrong password, the 401
C6_Witness ==
    \E t \in Threads :
        /\ Answered(t, "login")
        /\ own[t] # None
        /\ \E r \in RowsOf(t) :
              /\ r.verified # 0
              /\ DecryptOk(r.password)
              /\ decrypt_data(r.password) # req[t].password
        /\ resp[t] = Body(401, FALSE, MsgInvalidLogin)

\* C7: a login whose stored password does not decrypt returns the 401 of a
\* wrong password, without the error text.
C7_DecryptFailureIs401 ==
    \A t \in Threads :
        ( /\ Answered(t, "login")
          /\ Valid(t)
          /\ own[t] # None
          /\ \E r \in RowsOf(t) : ~DecryptOk(r.password) )
        => resp[t] = Body(401, FALSE, MsgInvalidLogin)

\* C8: a login with the right password for a teacher who is not verified
\* returns 403; a login succeeds only for a teacher whose row a verify request
\* later than the signup has committed as verified.
C8_UnverifiedIs403 ==
    \A t \in Threads :
        (Answered(t, "login") /\ Valid(t)) =>
            /\ ( /\ own[t] # None
                 /\ \E r \in RowsOf(t) :
                       /\ DecryptOk(r.password)
                       /\ decrypt_data(r.password) = req[t].password
                       /\ r.verified = 0 )
               => resp[t].status = 403 /\ ~resp[t].success
            /\ resp[t].success =>
                  \E r \in RowsOf(t) : r.verified # 0 /\ r.verified > r.rid

\* C8, a case: the right password, the teacher not verified, the 403
C8_Witness ==
    \E t \in Threads :
        /\ Answered(t, "login")
        /\ \E r \in RowsOf(t) :
              /\ DecryptOk(r.password)
              /\ decrypt_data(r.password) = req[t].password
              /\ r.verified = 0
        /\ resp[t].status = 403

\* C9: every body has `success` and `message`, and `error` only with a 500.
C9_BodyShape ==
    \A t \in Threads :
        (pc[t] = "teardown" /\ ~escaped[t]) =>
            /\ resp[t].message # Absent
            /\ resp[t].error # Absent => resp[t].status = 500

\* two strings equal up to the case of their letters
EqualsIgnoreCase(a, b) ==
    /\ Len(a) = Len(b)
    /\ \A i \in 1..Len(a) :
          \/ a[i] = b[i]
          \/ \E k \in 1..Len(UpperCase) :
                {a[i], b[i]} = {UpperCase[k], LowerCase[k]}
\* one of easy, medium, hard, in any case
NamesDifficulty(d) == \E k \in 1..Len(VALID_DIFFICULTIES) :
                          EqualsIgnoreCase(d, VALID_DIFFICULTIES[k])

\* C10: create_test with every field present returns the 400 difficulty error
\* exactly when the difficulty is not easy, medium or hard in some case; it
\* then has taken no cursor and inserted nothing; with such a difficulty, a
\* store that is reachable, an existing creator, and an id that int() accepts
\* and no test has, it returns 201 and the test is committed.
C10_Difficulty ==
    \A t \in Threads :
        (Answered(t, "create_test") /\ missing_fields(req[t], TestFields) = <<>>) =>
            /\ resp[t] = Body(400, FALSE, MsgDifficulty)
                  <=> ~NamesDifficulty(req[t].difficulty)
            /\ ~NamesDifficulty(req[t].difficulty) =>
                  /\ cur[t] = None
                  /\ \A c \in Serials : \A o \in pend[c] : o.by # ser[t]
                  /\ \A r \in tests : r.rid # ser[t]
            /\ ( /\ NamesDifficulty(req[t].difficulty)
                 /\ own[t] # None
                 /\ \E r \in teachers : r.email = req[t].createdBy
                 /\ IntParses(req[t].id)
                 /\ ~(schemaUnique /\ \E r \in tests :
                          r.num = IntOf(req[t].id) /\ r.rid # ser[t]) )
               => /\ resp[t] = Body(201, TRUE, "Test created successfully")
                  /\ \E r \in tests : r.rid = ser[t] /\ r.difficulty = req[t].difficulty

\* C10, a case: 'MEDIUM', an existing creator, the 201
C10_Witness ==
    \E t \in Threads :
        /\ Answered(t, "create_test")
        /\ req[t].difficulty = Str_MEDIUM
        /\ resp[t].status = 201
        /\ \E r \in tests : r.rid = ser[t]

====
